---------------------------- MODULE Spec2Model ----------------------------
(***************************************************************************)
(* Command execution and security validation of the mobile MCP server:     *)
(* SecurityValidator (utils/security.ts), ProcessExecutor                  *)
(* (utils/process.ts) and the background processes the tool handlers       *)
(* start and track.                                                        *)
(*                                                                         *)
(* A JavaScript string is a sequence of one-character strings, so that     *)
(* join, includes, startsWith and the regular expressions are computed on  *)
(* the characters as the code computes them.                               *)
(***************************************************************************)
EXTENDS Integers, Sequences, FiniteSets, Bags, TLC

VARIABLES
    probe,      \* a validator call on its own: its input and its outcome
    call,       \* the ProcessExecutor call under observation and its subprocess
    bg,         \* background processes spawned by the start handlers, by pid

    processMap, \* server.ts globalProcessMap = runningEmulators = ios activeRecordings
    flutterSessions,   \* flutter.ts runningFlutterSessions
    mediaRecordings,   \* android/media.ts activeRecordings
    handlers,   \* start-handler invocations suspended at an await
    timers,     \* auto-cleanup timers armed by ios_record_video
    reply,      \* what the last step handed out: a handler's response, a callback run
    exited      \* process.exit was called: the server is gone

vars == <<probe, call, bg, processMap, flutterSessions, mediaRecordings,
          handlers, timers, reply, exited>>

-----------------------------------------------------------------------------
(* Bounds of the model *)

\* longest argument list a validator probe draws
MaxArgs == 2
\* number of writes a subprocess makes to its output streams
MaxChunks == 2
\* number of background processes the start handlers spawn
MaxPid == 2
\* number of start-handler invocations suspended at an await at a time
MaxInflight == 2

\* the number of pieces a probed path string is put together from
MaxPieces == 3

-----------------------------------------------------------------------------
(* String primitives of JavaScript used by the code *)

\* t occurs in s starting at position i
OccursAt(s, i, t) ==
    /\ i >= 1
    /\ i + Len(t) - 1 <= Len(s)
    /\ SubSeq(s, i, i + Len(t) - 1) = t

\* String.prototype.includes
Includes(s, t) == \E i \in 1..(Len(s) + 1) : OccursAt(s, i, t)

\* String.prototype.startsWith
StartsWith(s, t) == OccursAt(s, 1, t)

\* String.prototype.endsWith
EndsWith(s, t) == Len(t) <= Len(s) /\ OccursAt(s, Len(s) - Len(t) + 1, t)

\* Array.prototype.join
RECURSIVE Join(_, _)
Join(list, sep) ==
    IF Len(list) = 0 THEN << >>
    ELSE IF Len(list) = 1 THEN list[1]
    ELSE list[1] \o sep \o Join(Tail(list), sep)

\* arg.split('=')[0]: the part of arg before the first '='
RECURSIVE SplitEq0(_)
SplitEq0(arg) ==
    IF Len(arg) = 0 \/ Head(arg) = "=" THEN << >>
    ELSE <<Head(arg)>> \o SplitEq0(Tail(arg))

\* Number.prototype.toString for a non-negative integer
RECURSIVE NumToString(_)
NumToString(n) ==
    LET digit == <<"0","1","2","3","4","5","6","7","8","9">>[(n % 10) + 1]
    IN  IF n < 10 THEN <<digit>> ELSE NumToString(n \div 10) \o <<digit>>

\* the characters the regular-expression class \s matches
Whitespace == {" ", "\t", "\n", "\r"}

-----------------------------------------------------------------------------
(* utils/security.ts *)

allowedCommands == {
    <<"a","d","b">>, <<"s","d","k","m","a","n","a","g","e","r">>, <<"a","v","d","m","a","n","a","g","e","r">>, <<"e","m","u","l","a","t","o","r">>, <<"g","r","a","d","l","e">>, <<"g","r","a","d","l","e","w">>,
    <<"g","r","a","d","l","e","w",".","b","a","t">>, <<"l","i","n","t">>, <<"n","a","t","i","v","e","-","r","u","n">>, <<"x","c","r","u","n">>, <<"x","c","o","d","e","b","u","i","l","d">>, <<"s","i","m","c","t","l">>,
    <<"f","l","u","t","t","e","r">>, <<"w","h","i","c","h">>, <<"l","s">> }

\* maxExecutionTime, in milliseconds
maxExecutionTime == 300000

\* DEFAULT_SECURITY_CONFIG.maxOutputSize, in characters
maxOutputSize == 10 * 1024 * 1024

\* the grave accent character, which a string of this notation cannot hold
GraveAccent == "grave"

\* the character class of the first pattern: ; & | grave $ ( ) { } [ ]
ShellMetacharacters == {";", "&", "|", GraveAccent, "$", "(", ")", "{", "}", "[", "]"}

\* a pattern list that lost its rm entry
DANGEROUS_PATTERNS_WithoutRm ==
    <<"metachar", "traversal", "sysdir", "privilege", "redirect">>

\* the six regular expressions, in the order the code tries them
DANGEROUS_PATTERNS ==
    <<"metachar", "traversal", "sysdir", "rm", "privilege", "redirect">>

\* pattern.test(s)
PatternTest(pattern, s) ==
    CASE pattern = "metachar" ->
            \E i \in 1..Len(s) : s[i] \in ShellMetacharacters
      [] pattern = "traversal" ->
            Includes(s, <<".",".">>)
      [] pattern = "sysdir" ->
            Includes(s, <<"/","e","t","c","/">>) \/ Includes(s, <<"/","p","r","o","c","/">>) \/ Includes(s, <<"/","s","y","s","/">>)
      [] pattern = "rm" ->
            \* rm, one or more whitespace characters, -rf
            \E i \in 1..Len(s), j \in 1..Len(s) :
                /\ OccursAt(s, i, <<"r","m">>)
                /\ j >= i + 3
                /\ \A k \in (i + 2)..(j - 1) : s[k] \in Whitespace
                /\ OccursAt(s, j, <<"-","r","f">>)
      [] pattern = "privilege" ->
            \/ Includes(s, <<"s","u","d","o">>)
            \/ \E i \in 1..Len(s) :
                  /\ OccursAt(s, i, <<"s","u">>)
                  /\ i + 2 <= Len(s)
                  /\ s[i + 2] \in Whitespace
      [] pattern = "redirect" ->
            \* '>', any whitespace, '/'   or   '>>'
            \/ \E i \in 1..Len(s), j \in 1..Len(s) :
                  /\ s[i] = ">"
                  /\ j > i
                  /\ \A k \in (i + 1)..(j - 1) : s[k] \in Whitespace
                  /\ s[j] = "/"
            \/ Includes(s, <<">",">">>)

\* pattern.source
PatternSource(pattern) ==
    CASE pattern = "metachar"  -> <<"[",";","&","|",GraveAccent,"$","(",")","{","}","[","\\","]","]">>
      [] pattern = "traversal" -> <<"\\",".","\\",".">>
      [] pattern = "sysdir"    -> <<"\\","/","e","t","c","\\","/","|","\\","/","p","r","o","c","\\","/","|","\\","/","s","y","s","\\","/">>
      [] pattern = "rm"        -> <<"r","m","\\","s","+","-","r","f">>
      [] pattern = "privilege" -> <<"s","u","d","o","|","s","u","\\","s">>
      [] pattern = "redirect"  -> <<">","\\","s","*","\\","/","|",">",">">>

\* DANGEROUS_PATTERNS.some(pattern => pattern.test(s))
MatchesDangerousPattern(s) ==
    \E i \in 1..Len(DANGEROUS_PATTERNS) : PatternTest(DANGEROUS_PATTERNS[i], s)

\* a validator returns normally, or throws new Error(message)
Returns == [thrown |-> FALSE, message |-> << >>]
Throws(message) == [thrown |-> TRUE, message |-> message]

safeAdbCommands == {
    <<"d","e","v","i","c","e","s">>, <<"i","n","s","t","a","l","l">>, <<"u","n","i","n","s","t","a","l","l">>, <<"s","h","e","l","l">>, <<"l","o","g","c","a","t">>, <<"p","u","s","h">>, <<"p","u","l","l">>,
    <<"v","e","r","s","i","o","n">> }

validateAdbCommand(args) ==
    IF Len(args) = 0 THEN Returns
    ELSE LET subCommand == args[1]
         IN  IF subCommand # << >> /\ subCommand \notin safeAdbCommands
             THEN Throws(<<"A","D","B"," ","s","u","b","c","o","m","m","a","n","d"," ","'">> \o subCommand \o <<"'"," ","i","s"," ","n","o","t"," ","a","l","l","o","w","e","d">>)
             ELSE IF subCommand = <<"s","h","e","l","l">>
                     /\ MatchesDangerousPattern(Join(Tail(args), <<" ">>))
             THEN Throws(<<"D","a","n","g","e","r","o","u","s"," ","s","h","e","l","l"," ","c","o","m","m","a","n","d"," ","d","e","t","e","c","t","e","d">>)
             ELSE Returns

safeArgs == { <<"-","l","i","s","t","-","a","v","d","s">>, <<"-","a","v","d">>, <<"-","n","o","-","w","i","n","d","o","w">>, <<"-","p","o","r","t">>, <<"-","g","p","u">> }

\* a validateEmulatorCommand that tests the first argument only
validateEmulatorCommandFirstOnly(args) ==
    IF /\ Len(args) > 0
       /\ StartsWith(args[1], <<"-">>)
       /\ (IF SplitEq0(args[1]) # << >> THEN SplitEq0(args[1]) ELSE args[1])
             \notin safeArgs
    THEN Throws(<<"E","m","u","l","a","t","o","r"," ","a","r","g","u","m","e","n","t"," ","'">> \o args[1] \o <<"'"," ","i","s"," ","n","o","t"," ","a","l","l","o","w","e","d">>)
    ELSE Returns

validateEmulatorCommand(args) ==
    LET bad == {i \in 1..Len(args) :
                  /\ StartsWith(args[i], <<"-">>)
                  /\ (IF SplitEq0(args[i]) # << >> THEN SplitEq0(args[i]) ELSE args[i])
                        \notin safeArgs}
        first == CHOOSE i \in bad : \A k \in bad : i <= k
    IN  IF bad = {} THEN Returns
        ELSE Throws(<<"E","m","u","l","a","t","o","r"," ","a","r","g","u","m","e","n","t"," ","'">> \o args[first] \o <<"'"," ","i","s"," ","n","o","t"," ","a","l","l","o","w","e","d">>)

safeFlutterCommands == {
    <<"d","o","c","t","o","r">>, <<"d","e","v","i","c","e","s">>, <<"e","m","u","l","a","t","o","r","s">>, <<"r","u","n">>, <<"b","u","i","l","d">>, <<"t","e","s","t">>, <<"c","l","e","a","n">>,
    <<"p","u","b">>, <<"c","r","e","a","t","e">>, <<"a","n","a","l","y","z","e">> }

safeFlutterFlags == {
    <<"-","-","v","e","r","s","i","o","n">>, <<"-","-","m","a","c","h","i","n","e">>, <<"-","-","v","e","r","b","o","s","e">>, <<"-","-","n","o","-","v","e","r","s","i","o","n","-","c","h","e","c","k">>,
    <<"-","-","s","u","p","p","r","e","s","s","-","a","n","a","l","y","t","i","c","s">> }

validateFlutterCommand(args) ==
    IF Len(args) = 0 THEN Returns
    ELSE LET subCommand == args[1]
         IN  IF subCommand = << >> THEN Returns
             ELSE IF StartsWith(subCommand, <<"-","-">>)
             THEN IF subCommand \notin safeFlutterFlags
                  THEN Throws(<<"F","l","u","t","t","e","r"," ","f","l","a","g"," ","'">> \o subCommand \o <<"'"," ","i","s"," ","n","o","t"," ","a","l","l","o","w","e","d">>)
                  ELSE Returns
             ELSE IF subCommand \notin safeFlutterCommands
             THEN Throws(<<"F","l","u","t","t","e","r"," ","s","u","b","c","o","m","m","a","n","d"," ","'">> \o subCommand \o <<"'"," ","i","s"," ","n","o","t"," ","a","l","l","o","w","e","d">>)
             ELSE Returns

validateCommandSpecific(command, args) ==
    CASE command = <<"a","d","b">>      -> validateAdbCommand(args)
      [] command = <<"e","m","u","l","a","t","o","r">> -> validateEmulatorCommand(args)
      [] command = <<"f","l","u","t","t","e","r">>  -> validateFlutterCommand(args)
      [] OTHER                 -> Returns

\* a validateCommand without the allowlist test
validateCommandWithoutAllowlist(command, args) ==
    LET fullCommand == Join(<<command>> \o args, <<" ">>)
    IN  IF MatchesDangerousPattern(fullCommand)
        THEN Throws(<<"C","o","m","m","a","n","d"," ","c","o","n","t","a","i","n","s"," ","d","a","n","g","e","r","o","u","s"," ","p","a","t","t","e","r","n">>)
        ELSE validateCommandSpecific(command, args)

\* a validateCommand that tests each argument by itself, not the joined line
validateCommandPerArgument(command, args) ==
    IF command \notin allowedCommands
    THEN Throws(<<"C","o","m","m","a","n","d"," ","'">> \o command \o <<"'"," ","i","s"," ","n","o","t"," ","a","l","l","o","w","e","d">>)
    ELSE IF \E i \in 1..Len(args) : MatchesDangerousPattern(args[i])
    THEN Throws(<<"C","o","m","m","a","n","d"," ","c","o","n","t","a","i","n","s"," ","d","a","n","g","e","r","o","u","s"," ","p","a","t","t","e","r","n">>)
    ELSE validateCommandSpecific(command, args)

validateCommand(command, args) ==
    IF command \notin allowedCommands
    THEN Throws(<<"C","o","m","m","a","n","d"," ","'">> \o command \o <<"'"," ","i","s"," ","n","o","t"," ","a","l","l","o","w","e","d">>)
    ELSE LET fullCommand == Join(<<command>> \o args, <<" ">>)
             hits == {i \in 1..Len(DANGEROUS_PATTERNS) :
                         PatternTest(DANGEROUS_PATTERNS[i], fullCommand)}
             first == CHOOSE i \in hits : \A k \in hits : i <= k
         IN  IF hits # {}
             THEN Throws(<<"C","o","m","m","a","n","d"," ","c","o","n","t","a","i","n","s"," ","d","a","n","g","e","r","o","u","s"," ","p","a","t","t","e","r","n",":"," ">>
                            \o PatternSource(DANGEROUS_PATTERNS[first]))
             ELSE validateCommandSpecific(command, args)

\* String.prototype.replace(/\.\./g, ''): the matches are found left to
\* right and do not overlap
RECURSIVE RemoveDotDot(_)
RemoveDotDot(s) ==
    IF Len(s) < 2 THEN s
    ELSE IF s[1] = "." /\ s[2] = "." THEN RemoveDotDot(SubSeq(s, 3, Len(s)))
    ELSE <<s[1]>> \o RemoveDotDot(Tail(s))

\* a replace that lacks the g flag: only the first match is removed
RECURSIVE RemoveFirstDotDot(_)
RemoveFirstDotDot(s) ==
    IF Len(s) < 2 THEN s
    ELSE IF s[1] = "." /\ s[2] = "." THEN SubSeq(s, 3, Len(s))
    ELSE <<s[1]>> \o RemoveFirstDotDot(Tail(s))

\* String.prototype.replace(/\/+/g, '/')
RECURSIVE CollapseSlashes(_)
CollapseSlashes(s) ==
    IF Len(s) < 2 THEN s
    ELSE IF s[1] = "/" /\ s[2] = "/" THEN CollapseSlashes(Tail(s))
    ELSE <<s[1]>> \o CollapseSlashes(Tail(s))

\* String.prototype.replace(/^\/+/, '')
RECURSIVE StripLeadingSlashes(_)
StripLeadingSlashes(s) ==
    IF Len(s) > 0 /\ s[1] = "/" THEN StripLeadingSlashes(Tail(s)) ELSE s

\* a sanitizePath whose first replace is not global
sanitizePathFirstMatchOnly(path) ==
    StripLeadingSlashes(CollapseSlashes(RemoveFirstDotDot(path)))

sanitizePath(path) ==
    StripLeadingSlashes(CollapseSlashes(RemoveDotDot(path)))

\* a validatePath that tests the system directories anywhere in the path, as
\* DANGEROUS_PATTERNS does
validatePathAnywhere(path) ==
    IF Includes(path, <<".",".">>)
    THEN Throws(<<"D","i","r","e","c","t","o","r","y"," ","t","r","a","v","e","r","s","a","l"," ","a","t","t","e","m","p","t"," ","d","e","t","e","c","t","e","d">>)
    ELSE IF Includes(path, <<"/","e","t","c","/">>) \/ Includes(path, <<"/","p","r","o","c","/">>)
            \/ Includes(path, <<"/","s","y","s","/">>)
    THEN Throws(<<"A","c","c","e","s","s"," ","t","o"," ","s","y","s","t","e","m"," ","d","i","r","e","c","t","o","r","i","e","s"," ","i","s"," ","n","o","t"," ","a","l","l","o","w","e","d">>)
    ELSE Returns

validatePath(path) ==
    IF Includes(path, <<".",".">>)
    THEN Throws(<<"D","i","r","e","c","t","o","r","y"," ","t","r","a","v","e","r","s","a","l"," ","a","t","t","e","m","p","t"," ","d","e","t","e","c","t","e","d">>)
    ELSE IF StartsWith(path, <<"/","e","t","c","/">>) \/ StartsWith(path, <<"/","p","r","o","c","/">>)
            \/ StartsWith(path, <<"/","s","y","s","/">>)
    THEN Throws(<<"A","c","c","e","s","s"," ","t","o"," ","s","y","s","t","e","m"," ","d","i","r","e","c","t","o","r","i","e","s"," ","i","s"," ","n","o","t"," ","a","l","l","o","w","e","d">>)
    ELSE Returns

-----------------------------------------------------------------------------
(* utils/process.ts: ProcessExecutor *)

\* an exit code that is present, and the undefined of a result without one
Some(code) == <<code>>
Undefined == << >>

\* the result object { stdout, stderr, exitCode } (duration is wall-clock time)
CommandResult(stdout, stderr, exitCode) ==
    [stdout |-> stdout, stderr |-> stderr, exitCode |-> exitCode]

NoResult == CommandResult(<< >>, << >>, Undefined)

\* options.timeout || DEFAULT_SECURITY_CONFIG.maxExecutionTime
EffectiveTimeout(timeout) == IF timeout # 0 THEN timeout ELSE maxExecutionTime

\* options.maxOutputSize || DEFAULT_SECURITY_CONFIG.maxOutputSize
EffectiveMaxOutputSize(size) == IF size # 0 THEN size ELSE maxOutputSize

\* the command line execa puts into its error messages
CommandLine(command, args) == Join(<<command>> \o args, <<" ">>)

\* How the promise of execa(command, args, {timeout, reject}) settles for each
\* way the subprocess can end.  With reject: false every failure of the
\* subprocess resolves the promise with the error object as the result; only
\* a spawn that throws synchronously still rejects.
ExecaMessage(ending, code, timeout, command, args) ==
    CASE ending = "exit"     -> <<"C","o","m","m","a","n","d"," ","f","a","i","l","e","d"," ","w","i","t","h"," ","e","x","i","t"," ","c","o","d","e"," ">> \o NumToString(code)
                                   \o <<":"," ">> \o CommandLine(command, args)
      [] ending = "timeout"  -> <<"C","o","m","m","a","n","d"," ","t","i","m","e","d"," ","o","u","t"," ","a","f","t","e","r"," ">> \o NumToString(timeout)
                                   \o <<" ","m","i","l","l","i","s","e","c","o","n","d","s",":"," ">> \o CommandLine(command, args)
      [] ending = "signal"   -> <<"C","o","m","m","a","n","d"," ","w","a","s"," ","k","i","l","l","e","d"," ","w","i","t","h"," ","S","I","G","K","I","L","L",":"," ">>
                                   \o CommandLine(command, args)
      [] ending = "enoent"   -> <<"C","o","m","m","a","n","d"," ","f","a","i","l","e","d"," ","w","i","t","h"," ","E","N","O","E","N","T",":"," ">>
                                   \o CommandLine(command, args)
      [] ending = "throw"    -> <<"C","o","m","m","a","n","d"," ","f","a","i","l","e","d"," ","w","i","t","h"," ","E","2","B","I","G",":"," ">>
                                   \o CommandLine(command, args)

ExecaSettles(reject, ending, code) ==
    IF ending = "throw" THEN "rejected"
    ELSE IF ending = "exit" /\ code = 0 THEN "resolved"
    ELSE IF reject THEN "rejected"
    ELSE "resolved"

\* execa's stripFinalNewline (on by default) applied to a buffered stream
StripFinalNewline(s) ==
    IF Len(s) > 0 /\ s[Len(s)] = "\n" THEN SubSeq(s, 1, Len(s) - 1) ELSE s

\* what execa has buffered of a stream when its maxBuffer is exceeded: the
\* data cut at maxBuffer (get-stream 8 and later), or all the data received,
\* the chunk that crossed the limit included (get-stream 6, execa 6 and 7)
Buffered(data, maxBuffer, truncates) ==
    IF truncates /\ Len(data) > maxBuffer THEN SubSeq(data, 1, maxBuffer) ELSE data

\* result.exitCode of the settled execa promise
ExecaExitCode(ending, code) == IF ending = "exit" THEN Some(code) ELSE Undefined

\* the catch block of execute (process.ts 62-88)
ExecuteCatch(message, timeout) ==
    IF Includes(message, <<"t","i","m","e","o","u","t">>)
    THEN [pc |-> "thrown",
          error |-> <<"C","o","m","m","a","n","d"," ","t","i","m","e","d"," ","o","u","t"," ","a","f","t","e","r"," ">>
                       \o NumToString(EffectiveTimeout(timeout)) \o <<"m","s">>,
          result |-> NoResult]
    ELSE IF Includes(message, <<"k","i","l","l","e","d">>)
    THEN [pc |-> "thrown",
          error |-> <<"C","o","m","m","a","n","d"," ","w","a","s"," ","k","i","l","l","e","d"," ","d","u","e"," ","t","o"," ","r","e","s","o","u","r","c","e"," ","l","i","m","i","t","s">>,
          result |-> NoResult]
    ELSE IF Includes(message, <<"n","o","t"," ","a","l","l","o","w","e","d">>) \/ Includes(message, <<"d","a","n","g","e","r","o","u","s">>)
    THEN [pc |-> "thrown", error |-> message, result |-> NoResult]
    ELSE [pc |-> "returned", error |-> << >>,
          result |-> CommandResult(<< >>, message, Some(1))]

\* the catch block of executeStream (process.ts 152-161)
ExecuteStreamCatch(message, stdout) ==
    [pc |-> "returned", error |-> << >>,
     result |-> CommandResult(stdout, message, Some(1))]

\* the security validation both functions start with: validateCommand, then
\* validatePath when options.cwd is truthy
\* a validation that forgets options.cwd
SecurityValidationWithoutPath(command, args, cwd) ==
    validateCommand(command, args)

SecurityValidation(command, args, cwd) ==
    LET v == validateCommand(command, args)
    IN  IF v.thrown THEN v
        ELSE IF cwd # << >> THEN validatePath(cwd)
        ELSE Returns

\* reject option each function passes to execa
\* execute calling execa without reject: false
ExecuteRejectDefault == TRUE

ExecuteReject == FALSE
ExecuteStreamReject == TRUE

IdleCall ==
    [pc |-> "idle", fn |-> "none", command |-> << >>, args |-> << >>,
     cwd |-> << >>, timeout |-> 0, maxOutputSize |-> 0, spawned |-> FALSE,
     procStdout |-> << >>, procStderr |-> << >>, writes |-> 0, yielded |-> << >>,
     ending |-> "none", exitCode |-> Undefined,
     error |-> << >>, result |-> NoResult]

NewCall(fn, command, args, cwd, timeout) ==
    [IdleCall EXCEPT !.fn = fn, !.command = command, !.args = args,
                     !.cwd = cwd, !.timeout = timeout]

\* the call has ended: the outcome holds pc, error and result
Ended(c, outcome) ==
    [c EXCEPT !.pc = outcome.pc, !.error = outcome.error, !.result = outcome.result]

\* execute up to its first suspension (process.ts 26-51): validation, then
\* the spawn by execa; spawnThrows is the operating system refusing the spawn
\* synchronously
ExecuteBegin(command, args, cwd, timeout, maxOutput, spawnThrows) ==
    LET c == [NewCall("execute", command, args, cwd, timeout)
                EXCEPT !.maxOutputSize = maxOutput]
        v == SecurityValidation(command, args, cwd)
    IN  IF v.thrown THEN Ended(c, ExecuteCatch(v.message, timeout))
        ELSE IF spawnThrows
        THEN Ended([c EXCEPT !.spawned = TRUE, !.ending = "throw"],
                   ExecuteCatch(ExecaMessage("throw", 0, EffectiveTimeout(timeout),
                                             command, args), timeout))
        ELSE [c EXCEPT !.pc = "running", !.spawned = TRUE]

\* executeStream up to its first suspension (process.ts 103-142): the
\* validation is outside the try block, so its rejection leaves the generator
ExecuteStreamBegin(command, args, cwd, timeout, spawnThrows) ==
    LET c == NewCall("executeStream", command, args, cwd, timeout)
        v == SecurityValidation(command, args, cwd)
    IN  IF v.thrown
        THEN Ended(c, [pc |-> "thrown", error |-> v.message, result |-> NoResult])
        ELSE IF spawnThrows
        THEN Ended([c EXCEPT !.spawned = TRUE, !.ending = "throw"],
                   ExecuteStreamCatch(ExecaMessage("throw", 0, EffectiveTimeout(timeout),
                                                   command, args), << >>))
        ELSE [c EXCEPT !.pc = "running", !.spawned = TRUE]

\* the rest of execute / executeStream once the execa promise settles
\* (process.ts 53-60 and 143-150, or the catch blocks)
Settle(c, ending, code) ==
    LET t == EffectiveTimeout(c.timeout)
        message == ExecaMessage(ending, code, t, c.command, c.args)
        d == [c EXCEPT !.ending = ending, !.exitCode = ExecaExitCode(ending, code)]
    IN  IF c.fn = "execute"
        THEN IF ExecaSettles(ExecuteReject, ending, code) = "resolved"
             THEN Ended(d, [pc |-> "returned", error |-> << >>,
                            result |-> CommandResult(StripFinalNewline(c.procStdout),
                                                     StripFinalNewline(c.procStderr),
                                                     ExecaExitCode(ending, code))])
             ELSE Ended(d, ExecuteCatch(message, c.timeout))
        ELSE IF ExecaSettles(ExecuteStreamReject, ending, code) = "resolved"
             THEN Ended(d, [pc |-> "returned", error |-> << >>,
                            result |-> CommandResult(c.procStdout, c.procStderr,
                                                     ExecaExitCode(ending, code))])
             ELSE Ended(d, ExecuteStreamCatch(message, c.procStdout))

\* execute once a stream of the subprocess has passed maxBuffer: execa ends
\* the subprocess and, with reject: false, resolves with what it has buffered
SettleMaxBuffer(c, truncates) ==
    LET limit == EffectiveMaxOutputSize(c.maxOutputSize)
    IN  Ended([c EXCEPT !.ending = "maxBuffer"],
              [pc |-> "returned", error |-> << >>,
               result |-> CommandResult(
                   StripFinalNewline(Buffered(c.procStdout, limit, truncates)),
                   StripFinalNewline(Buffered(c.procStderr, limit, truncates)),
                   Undefined)])

-----------------------------------------------------------------------------
(* Inputs of the executor calls *)

ExecInvocations == {
    <<<<"l","s">>, << >>>>,
    <<<<"a","d","b">>, <<<<"d","e","v","i","c","e","s">>>>>>,
    <<<<"a","d","b">>, <<<<"-","s">>, <<"e","m","u","l","a","t","o","r","-","5","5","5","4">>, <<"i","n","s","t","a","l","l">>, <<"a","p","p",".","a","p","k">>>>>>,
    <<<<"l","s">>, <<<<"t","e","s","t",";"," ","r","m"," ","-","r","f"," ","/">>>>>>,
    <<<<"e","c","h","o">>, <<<<"t","e","s","t",";"," ","r","m"," ","-","r","f"," ","/">>>>>>,
    <<<<"e","c","h","o">>, <<<<"t","e","s","t">>>>>>,
    <<<<"s","l","e","e","p">>, <<<<"2">>>>>>,
    <<<<"t","i","m","e","o","u","t">>, << >>>> }

\* options.cwd; the empty string stands for an absent (falsy) cwd
ExecCwds == { << >>, <<"/","t","m","p","/","p">>, <<".",".","/","x">>, <<"/","e","t","c","/","x">> }

\* options.timeout in milliseconds; 0 stands for an absent (falsy) timeout
ExecTimeouts == {0, 500}

\* options.maxOutputSize in characters; 0 stands for an absent one
ExecMaxOutputSizes == {0, 4}

ExitCodes == {0, 1, 2}

\* what a subprocess writes at a time: a line of text
Chunks == { <<"o","k","\n">> }

ExecRequests ==
    {[command |-> i[1], args |-> i[2], cwd |-> d, timeout |-> t, maxOutputSize |-> m] :
        i \in ExecInvocations, d \in ExecCwds, t \in ExecTimeouts,
        m \in ExecMaxOutputSizes}

\* the synchronous prefix of each call, per request
ExecuteBeginOf ==
    [r \in ExecRequests |->
        [s \in BOOLEAN |->
            ExecuteBegin(r.command, r.args, r.cwd, r.timeout, r.maxOutputSize, s)]]

ExecuteStreamBeginOf ==
    [r \in ExecRequests |->
        [s \in BOOLEAN |-> ExecuteStreamBegin(r.command, r.args, r.cwd, r.timeout, s)]]

-----------------------------------------------------------------------------
(* Actions of the executor *)

trackVars == <<bg, processMap, flutterSessions, mediaRecordings,
               handlers, timers, reply, exited>>

\* a caller invokes processExecutor.execute(command, args, options)
Execute ==
    /\ call.pc # "running"
    /\ \E r \in ExecRequests, spawnThrows \in BOOLEAN :
          call' = ExecuteBeginOf[r][spawnThrows]
    /\ UNCHANGED <<probe, trackVars>>

\* a caller starts iterating processExecutor.executeStream(command, args, options)
ExecuteStream ==
    /\ call.pc # "running"
    /\ \E r \in ExecRequests, spawnThrows \in BOOLEAN :
          call' = ExecuteStreamBeginOf[r][spawnThrows]
    /\ UNCHANGED <<probe, trackVars>>

\* the subprocess writes a chunk to one of its output streams.  execute
\* has execa buffer the streams up to maxBuffer (process.ts 44);
\* executeStream appends every chunk to its own stdout / stderr strings
\* (process.ts 127-140) and hands none of them to the consumer: the
\* generator has no yield
SubprocessWrite ==
    /\ call.pc = "running"
    /\ call.writes < MaxChunks
    /\ \E chunk \in Chunks, stream \in {"stdout", "stderr"} :
          LET written ==
                  IF stream = "stdout"
                  THEN [call EXCEPT !.procStdout = @ \o chunk, !.writes = @ + 1]
                  ELSE [call EXCEPT !.procStderr = @ \o chunk, !.writes = @ + 1]
              limit == EffectiveMaxOutputSize(call.maxOutputSize)
          IN  IF /\ call.fn = "execute"
                 /\ (Len(written.procStdout) > limit \/ Len(written.procStderr) > limit)
              THEN \E truncates \in BOOLEAN : call' = SettleMaxBuffer(written, truncates)
              ELSE call' = written
    /\ UNCHANGED <<probe, trackVars>>

\* the subprocess exits on its own with an exit code
SubprocessExit ==
    /\ call.pc = "running"
    /\ \E code \in ExitCodes : call' = Settle(call, "exit", code)
    /\ UNCHANGED <<probe, trackVars>>

\* the timeout given to execa elapses before the subprocess has exited:
\* execa kills the subprocess
SubprocessTimeout ==
    /\ call.pc = "running"
    /\ call' = Settle(call, "timeout", 0)
    /\ UNCHANGED <<probe, trackVars>>

\* the subprocess is killed by a signal from outside
SubprocessKilled ==
    /\ call.pc = "running"
    /\ call' = Settle(call, "signal", 0)
    /\ UNCHANGED <<probe, trackVars>>

\* the binary cannot be started: the spawn fails asynchronously (ENOENT)
SubprocessSpawnError ==
    /\ call.pc = "running"
    /\ call.writes = 0
    /\ call' = Settle(call, "enoent", 0)
    /\ UNCHANGED <<probe, trackVars>>

ExecNext ==
    \/ Execute
    \/ ExecuteStream
    \/ SubprocessWrite
    \/ SubprocessExit
    \/ SubprocessTimeout
    \/ SubprocessKilled
    \/ SubprocessSpawnError

-----------------------------------------------------------------------------
(* Helpers of the tool handlers *)

\* String.prototype.split on a one-character separator
RECURSIVE Split(_, _)
Split(s, sep) ==
    IF \A i \in 1..Len(s) : s[i] # sep THEN <<s>>
    ELSE LET i == CHOOSE k \in 1..Len(s) :
                     s[k] = sep /\ \A m \in 1..(k - 1) : s[m] # sep
         IN  <<SubSeq(s, 1, i - 1)>> \o Split(SubSeq(s, i + 1, Len(s)), sep)

\* the segments of a path after '.', '' and '..' are resolved
RECURSIVE ResolveSegments(_, _, _)
ResolveSegments(segments, stack, absolute) ==
    IF Len(segments) = 0 THEN stack
    ELSE LET seg == Head(segments)
             rest == Tail(segments)
         IN  IF seg = << >> \/ seg = <<".">>
             THEN ResolveSegments(rest, stack, absolute)
             ELSE IF seg = <<".",".">>
             THEN IF Len(stack) > 0 /\ stack[Len(stack)] # <<".",".">>
                  THEN ResolveSegments(rest, SubSeq(stack, 1, Len(stack) - 1), absolute)
                  ELSE IF absolute THEN ResolveSegments(rest, stack, absolute)
                  ELSE ResolveSegments(rest, Append(stack, seg), absolute)
             ELSE ResolveSegments(rest, Append(stack, seg), absolute)

\* path.isAbsolute (POSIX)
IsAbsolute(p) == StartsWith(p, <<"/">>)

\* path.normalize (POSIX)
Normalize(p) ==
    LET absolute == IsAbsolute(p)
        trailing == Len(p) > 0 /\ p[Len(p)] = "/"
        body == Join(ResolveSegments(Split(p, "/"), << >>, absolute), <<"/">>)
        tailed == IF body # << >> /\ trailing THEN body \o <<"/">> ELSE body
    IN  IF absolute THEN <<"/">> \o tailed
        ELSE IF tailed = << >> THEN (IF trailing THEN <<".","/">> ELSE <<".">>)
        ELSE tailed

\* path.dirname is not needed: fs.mkdir either succeeds or fails

\* path.extname (POSIX): from the last '.' of the last segment, unless that
\* '.' is its first character
ExtName(p) ==
    LET segs == Split(p, "/")
        base == segs[Len(segs)]
        dots == {i \in 2..Len(base) : base[i] = "."}
        last == CHOOSE i \in dots : \A k \in dots : k <= i
    IN  IF dots = {} THEN << >> ELSE SubSeq(base, last, Len(base))

\* String.prototype.toLowerCase on ASCII
ToLowerCase(s) ==
    LET upper == <<"A","B","C","D","E","F","G","H","I","J","K","L","M","N","O","P","Q","R","S","T","U","V","W","X","Y","Z">>
        lower == <<"a","b","c","d","e","f","g","h","i","j","k","l","m","n","o","p","q","r","s","t","u","v","w","x","y","z">>
        low(c) == IF \E i \in 1..26 : upper[i] = c
                  THEN lower[CHOOSE i \in 1..26 : upper[i] = c]
                  ELSE c
    IN  [i \in 1..Len(s) |-> low(s[i])]

\* ios.ts validateUDID: /^[A-F0-9]{8}-[A-F0-9]{4}-[A-F0-9]{4}-[A-F0-9]{4}-[A-F0-9]{12}$/i
validateUDID(udid) ==
    LET hex == {"0","1","2","3","4","5","6","7","8","9",
                "a","b","c","d","e","f","A","B","C","D","E","F"}
        dashes == {9, 14, 19, 24}
    IN  /\ Len(udid) = 36
        /\ \A i \in 1..36 : IF i \in dashes THEN udid[i] = "-" ELSE udid[i] \in hex

\* JavaScript Map operations
\* a has() that finds no key
MapHasNothing(m, k) == FALSE

MapHas(m, k) == k \in DOMAIN m
MapSet(m, k, v) == [x \in DOMAIN m \cup {k} |-> IF x = k THEN v ELSE m[x]]
MapDelete(m, k) == [x \in DOMAIN m \ {k} |-> m[x]]
EmptyMap == [x \in {} |-> 0]

\* the pid of a ChildProcess whose spawn failed is undefined
UndefinedPid == 0

\* android.ts android_delete_avd: /^[a-zA-Z0-9_]+$/
IsAvdName(name) ==
    LET word == {"0","1","2","3","4","5","6","7","8","9","_",
                 "a","b","c","d","e","f","g","h","i","j","k","l","m",
                 "n","o","p","q","r","s","t","u","v","w","x","y","z",
                 "A","B","C","D","E","F","G","H","I","J","K","L","M",
                 "N","O","P","Q","R","S","T","U","V","W","X","Y","Z"}
    IN  Len(name) > 0 /\ \A i \in 1..Len(name) : name[i] \in word

-----------------------------------------------------------------------------
(* Background processes: child_process.spawn in the start handlers *)

\* the argument vectors the start handlers build
EmulatorArgs(avdName, options) ==
    <<<<"-","a","v","d">>, avdName>>
        \o (IF options.noWindow THEN <<<<"-","n","o","-","w","i","n","d","o","w">>>> ELSE << >>)
        \o (IF options.port # 0 THEN <<<<"-","p","o","r","t">>, NumToString(options.port)>> ELSE << >>)
        \o (IF options.gpu # << >> THEN <<<<"-","g","p","u">>, options.gpu>> ELSE << >>)

FlutterRunArgs(in) ==
    <<<<"r","u","n">>>>
        \o (IF in.deviceId # << >> THEN <<<<"-","d">>, in.deviceId>> ELSE << >>)
        \o (IF in.target # << >> THEN <<<<"-","-","t","a","r","g","e","t">>, in.target>> ELSE << >>)
        \o (IF in.flavor # << >> THEN <<<<"-","-","f","l","a","v","o","r">>, in.flavor>> ELSE << >>)
        \o (IF in.debugPort # 0 THEN <<<<"-","-","d","e","b","u","g","-","p","o","r","t">>, NumToString(in.debugPort)>> ELSE << >>)

IosRecordArgs(in) ==
    <<<<"s","i","m","c","t","l">>, <<"i","o">>, in.udid, <<"r","e","c","o","r","d","V","i","d","e","o">>, <<"-","-","t","i","m","e","o","u","t">>,
      NumToString(in.duration), in.path>>

ScreenRecordRemotePath(now) == <<"/","s","d","c","a","r","d","/","s","c","r","e","e","n","r","e","c","o","r","d","_">> \o now \o <<".","m","p","4">>

ScreenRecordArgs(in, now) ==
    <<<<"-","s">>, in.serial, <<"s","h","e","l","l">>, <<"s","c","r","e","e","n","r","e","c","o","r","d">>>>
        \o (IF in.hasOptions /\ in.duration # 0
            THEN <<<<"-","-","t","i","m","e","-","l","i","m","i","t">>, NumToString(in.duration)>> ELSE << >>)
        \o (IF in.hasOptions /\ in.size # << >> THEN <<<<"-","-","s","i","z","e">>, in.size>> ELSE << >>)
        \o (IF in.hasOptions /\ in.bitRate # 0
            THEN <<<<"-","-","b","i","t","-","r","a","t","e">>, NumToString(in.bitRate)>> ELSE << >>)
        \o (IF in.hasOptions /\ in.rotate THEN <<<<"-","-","r","o","t","a","t","e">>>> ELSE << >>)
        \o (IF in.hasOptions /\ in.verbose THEN <<<<"-","-","v","e","r","b","o","s","e">>>> ELSE << >>)
        \o <<ScreenRecordRemotePath(now)>>

\* child_process.spawn(command, args): one more entry of bg.  The pid of the
\* new process is its index; started is FALSE when the spawn failed and the
\* ChildProcess has no pid.
ChildProcess(tool, key, command, args, started) ==
    [tool |-> tool, key |-> key, command |-> command, args |-> args,
     started |-> started, alive |-> started, exitPending |-> FALSE]

PidOf(started) == IF started THEN Len(bg) + 1 ELSE UndefinedPid

-----------------------------------------------------------------------------
(* Inputs of the start handlers *)

AvdNames == { <<"P","i","x","e","l","_","7">> }

\* the names android_delete_avd is called with
DeleteAvdNames == AvdNames \cup { <<"a",";","b">> }

EmulatorOptions == {
    [noWindow |-> TRUE, port |-> 5554, gpu |-> << >>] }

FlutterRunInputs == {
    [cwd |-> <<"/","t","m","p","/","p">>, deviceId |-> <<"e","m","u","l","a","t","o","r","-","5","5","5","4">>, target |-> <<"l","i","b","/","m","a","i","n",".","d","a","r","t">>,
     flavor |-> << >>, debugPort |-> 0],
    [cwd |-> <<"/","t","m","p","/","p">>, deviceId |-> << >>, target |-> <<"m","a","i","n",".","t","x","t">>, flavor |-> << >>,
     debugPort |-> 0] }

IosRecordInputs == {
    [udid |-> <<"0","A","1","B","2","C","3","D","-","0","0","0","0","-","1","1","1","1","-","2","2","2","2","-","0","1","2","3","4","5","6","7","8","9","a","b">>, path |-> <<"/","t","m","p","/","v",".","m","p","4">>,
     duration |-> 30],
    [udid |-> <<"0","A","1","B","2","C","3","D","-","0","0","0","0","-","1","1","1","1","-","2","2","2","2","-","0","1","2","3","4","5","6","7","8","9","a","b">>, path |-> <<"/","e","t","c","/","v",".","m","p","4">>,
     duration |-> 30],
    [udid |-> <<"b","o","o","t","e","d">>, path |-> <<"/","t","m","p","/","v",".","m","p","4">>, duration |-> 30] }

\* the simulators the inputs name
Udids == {in.udid : in \in IosRecordInputs}

ScreenRecordInputs == {
    [serial |-> <<"e","m","u","l","a","t","o","r","-","5","5","5","4">>, outputPath |-> <<"/","t","m","p","/","r",".","m","p","4">>, hasOptions |-> TRUE,
     duration |-> 30, size |-> <<"1","2","8","0","x","7","2","0">>, bitRate |-> 0, rotate |-> FALSE,
     verbose |-> TRUE] }

\* Date.now() as the handler prints it
Timestamps == { <<"1","7","0","0","0","0","0","0","0","0","0","0","0">> }

-----------------------------------------------------------------------------
(* Responses of the tool handlers *)

\* what a handler hands back: a { success: true, data } result, a
\* { success: false, error } result, or a thrown Error; status is data.status
\* or error.code, pid the pid the response carries.  The run of an 'exit'
\* callback is recorded the same way: the tool whose handler registered it,
\* the outcome "exit", and whether it removed the entry of its own process.
\* data holds the entries of a response that lists processes.
Reply(tool, key, outcome, status, pid) ==
    [tool |-> tool, key |-> key, outcome |-> outcome, status |-> status, pid |-> pid,
     data |-> {}]

\* the step taken produced no response and ran no callback
NoReply == Reply("none", << >>, "none", "none", UndefinedPid)

\* a ChildProcess without a pid emits 'error' on the next tick; no handler
\* listens for it, so it reaches uncaughtException, which calls
\* process.exit(1) (server.ts 208-211) before the handler's response is sent
SpawnReply(started, r) == IF started THEN r ELSE NoReply

-----------------------------------------------------------------------------
(* process.kill *)

\* process.kill(pid, signal) throws: the pid is undefined, or no such process
\* exists any more
KillThrows(pid) ==
    \/ pid = UndefinedPid
    \/ pid > Len(bg)
    \/ ~bg[pid].alive /\ ~bg[pid].exitPending

\* whether process.kill(pid, signal) throws.  A process that has exited but
\* whose exit the server has not collected yet is signalled without an error
\* on POSIX and reported as missing on Windows.
KillOutcomes(pid) ==
    IF KillThrows(pid) THEN {TRUE}
    ELSE IF bg[pid].alive THEN {FALSE}
    ELSE BOOLEAN

\* the process ends on the signal
Killed(pid) == [bg EXCEPT ![pid].alive = FALSE, ![pid].exitPending = TRUE]

\* the background processes after process.kill(pid, signal)
AfterKill(pid, throws) ==
    IF throws \/ ~bg[pid].alive THEN bg ELSE Killed(pid)

-----------------------------------------------------------------------------
(* Actions of the start handlers *)

\* android_start_emulator (android.ts 386-447): no await before the spawn
AndroidStartEmulator ==
    /\ ~exited
    /\ \E avdName \in AvdNames, options \in EmulatorOptions :
          IF MapHas(processMap, avdName)
          THEN /\ reply' = Reply("android_start_emulator", avdName, "success",
                                 "already_running", processMap[avdName])
               /\ UNCHANGED <<bg, processMap, exited>>
          ELSE \E started \in BOOLEAN :
               /\ Len(bg) < MaxPid
               /\ bg' = Append(bg, ChildProcess("android_start_emulator", avdName,
                                  <<"e","m","u","l","a","t","o","r">>, EmulatorArgs(avdName, options), started))
               /\ processMap' = MapSet(processMap, avdName, PidOf(started))
               /\ exited' = ~started
               /\ reply' = SpawnReply(started,
                              Reply("android_start_emulator", avdName, "success",
                                    "started", PidOf(started)))
    /\ UNCHANGED <<probe, call, flutterSessions, mediaRecordings, handlers, timers>>

\* flutter_run up to await validateFlutterProject(cwd) (flutter.ts 321-330)
FlutterRunCall ==
    /\ ~exited
    /\ BagCardinality(handlers) < MaxInflight
    /\ \E in \in FlutterRunInputs :
          handlers' = handlers (+) SetToBag({[tool |-> "flutter_run", in |-> in]})
    /\ reply' = NoReply
    /\ UNCHANGED <<probe, call, bg, processMap, flutterSessions, mediaRecordings,
                   timers, exited>>

\* one suspended invocation resumes
Resumed(h) == handlers (-) SetToBag({h})

\* the session ids that run the project at cwd
\* a lookup that compares the wrong field of the session with cwd
SessionsOfDevice(cwd) ==
    {id \in DOMAIN flutterSessions : flutterSessions[id].deviceId = cwd}

SessionsOf(cwd) ==
    {id \in DOMAIN flutterSessions : flutterSessions[id].projectPath = cwd}

\* flutter_run after the await (flutter.ts 332-411)
FlutterRunResume ==
    /\ ~exited
    /\ \E h \in BagToSet(handlers), isProject \in BOOLEAN :
        LET in == h.in
            \* Array.prototype.find: the first session in insertion order
            existing == CHOOSE id \in SessionsOf(in.cwd) :
                            \A other \in SessionsOf(in.cwd) : id <= other
        IN  /\ h.tool = "flutter_run"
            /\ handlers' = Resumed(h)
            /\ IF ~isProject                         \* pubspec.yaml not found
               THEN /\ reply' = Reply("flutter_run", in.cwd, "thrown",
                                      "not_a_flutter_project", UndefinedPid)
                    /\ UNCHANGED <<bg, flutterSessions, exited>>
               ELSE IF SessionsOf(in.cwd) # {}
               THEN /\ reply' = [Reply("flutter_run", in.cwd, "success",
                                       "already_running", flutterSessions[existing].pid)
                                    EXCEPT !.data = {<<existing, flutterSessions[existing].pid>>}]
                    /\ UNCHANGED <<bg, flutterSessions, exited>>
               ELSE IF in.target # << >> /\ ~EndsWith(in.target, <<".","d","a","r","t">>)
               THEN /\ reply' = Reply("flutter_run", in.cwd, "thrown",
                                      "invalid_target", UndefinedPid)
                    /\ UNCHANGED <<bg, flutterSessions, exited>>
               ELSE \E started \in BOOLEAN :
                    /\ Len(bg) < MaxPid
                    /\ bg' = Append(bg, ChildProcess("flutter_run", Len(bg) + 1,
                                       <<"f","l","u","t","t","e","r">>, FlutterRunArgs(in), started))
                    /\ flutterSessions' =
                          MapSet(flutterSessions, Len(bg) + 1,
                                 [pid |-> PidOf(started),
                                  deviceId |-> IF in.deviceId # << >>
                                               THEN in.deviceId ELSE <<"d","e","f","a","u","l","t">>,
                                  projectPath |-> in.cwd])
                    /\ exited' = ~started
                    /\ reply' = SpawnReply(started,
                                   Reply("flutter_run", in.cwd, "success", "started",
                                         PidOf(started)))
            /\ UNCHANGED <<probe, call, processMap, mediaRecordings, timers>>

\* the checks ios_record_video makes on the video path (ios.ts 451-468)
IosVideoPathAccepted(path) ==
    /\ IsAbsolute(path)
    /\ \A dangerous \in { <<"/","e","t","c">>, <<"/","u","s","r">>, <<"/","S","y","s","t","e","m">>, <<"/","p","r","i","v","a","t","e">>, <<"/","v","a","r">> } :
          ~StartsWith(Normalize(path), dangerous)
    /\ ToLowerCase(ExtName(path)) \in { <<".","m","o","v">>, <<".","m","p","4">> }

\* ios_record_video up to await fs.mkdir (ios.ts 431-478), on a macOS host
IosRecordVideoCall ==
    /\ ~exited
    /\ BagCardinality(handlers) < MaxInflight
    /\ \E in \in IosRecordInputs :
          IF ~validateUDID(in.udid)
          THEN /\ reply' = Reply("ios_record_video", in.udid, "thrown",
                                 "invalid_udid", UndefinedPid)
               /\ UNCHANGED handlers
          ELSE IF MapHas(processMap, in.udid)
          THEN /\ reply' = Reply("ios_record_video", in.udid, "thrown",
                                 "already_active", processMap[in.udid])
               /\ UNCHANGED handlers
          ELSE IF ~(IosVideoPathAccepted(in.path) /\ in.duration >= 1 /\ in.duration <= 300)
          THEN /\ reply' = Reply("ios_record_video", in.udid, "thrown",
                                 "invalid_request", UndefinedPid)
               /\ UNCHANGED handlers
          ELSE /\ reply' = NoReply
               /\ handlers' = handlers (+) SetToBag({[tool |-> "ios_record_video", in |-> in]})
    /\ UNCHANGED <<probe, call, bg, processMap, flutterSessions, mediaRecordings,
                   timers, exited>>

\* ios_record_video after the await (ios.ts 479-523)
IosRecordVideoResume ==
    /\ ~exited
    /\ \E h \in BagToSet(handlers), mkdirOk \in BOOLEAN :
        LET in == h.in
        IN  /\ h.tool = "ios_record_video"
            /\ handlers' = Resumed(h)
            /\ IF ~mkdirOk
               THEN /\ reply' = Reply("ios_record_video", in.udid, "thrown",
                                      "mkdir_failed", UndefinedPid)
                    /\ UNCHANGED <<bg, processMap, timers, exited>>
               ELSE \E started \in BOOLEAN :
                    /\ Len(bg) < MaxPid
                    /\ bg' = Append(bg, ChildProcess("ios_record_video", in.udid,
                                       <<"x","c","r","u","n">>, IosRecordArgs(in), started))
                    /\ processMap' = MapSet(processMap, in.udid, PidOf(started))
                    /\ timers' = timers \cup {[udid |-> in.udid, pid |-> PidOf(started)]}
                    /\ exited' = ~started
                    /\ reply' = SpawnReply(started,
                                   Reply("ios_record_video", in.udid, "success",
                                         "recording_started", PidOf(started)))
            /\ UNCHANGED <<probe, call, flutterSessions, mediaRecordings>>

\* android_screen_record up to await fs.mkdir (media.ts 228-246)
AndroidScreenRecordCall ==
    /\ ~exited
    /\ BagCardinality(handlers) < MaxInflight
    /\ \E in \in ScreenRecordInputs :
          IF MapHas(mediaRecordings, in.serial)
          THEN /\ reply' = Reply("android_screen_record", in.serial, "failure",
                                 "RECORDING_ALREADY_ACTIVE", mediaRecordings[in.serial])
               /\ UNCHANGED handlers
          ELSE /\ reply' = NoReply
               /\ handlers' = handlers (+) SetToBag({[tool |-> "android_screen_record", in |-> in]})
    /\ UNCHANGED <<probe, call, bg, processMap, flutterSessions, mediaRecordings,
                   timers, exited>>

\* android_screen_record after the await (media.ts 248-326)
AndroidScreenRecordResume ==
    /\ ~exited
    /\ \E h \in BagToSet(handlers), mkdirOk \in BOOLEAN :
        LET in == h.in
        IN  /\ h.tool = "android_screen_record"
            /\ handlers' = Resumed(h)
            /\ IF ~mkdirOk
               THEN /\ reply' = Reply("android_screen_record", in.serial, "failure",
                                      "SCREEN_RECORD_ERROR", UndefinedPid)
                    /\ UNCHANGED <<bg, mediaRecordings, exited>>
               ELSE \E started \in BOOLEAN, now \in Timestamps :
                    /\ Len(bg) < MaxPid
                    /\ bg' = Append(bg, ChildProcess("android_screen_record", in.serial,
                                       <<"a","d","b">>, ScreenRecordArgs(in, now), started))
                    /\ mediaRecordings' =
                          IF started
                          THEN MapSet(mediaRecordings, in.serial, PidOf(started))
                          ELSE mediaRecordings
                    /\ exited' = ~started
                    /\ reply' = SpawnReply(started,
                                   Reply("android_screen_record", in.serial, "success",
                                         "started", PidOf(started)))
            /\ UNCHANGED <<probe, call, processMap, flutterSessions, timers>>

-----------------------------------------------------------------------------
(* Actions of the stop handlers *)

\* Map.prototype.get: undefined for a key that is not in the map
MapGet(m, k) == IF MapHas(m, k) THEN m[k] ELSE UndefinedPid

\* android_stop_emulator (android.ts 461-503)
AndroidStopEmulator ==
    /\ ~exited
    /\ \E avdName \in AvdNames :
          LET pid == MapGet(processMap, avdName)
          IN  IF pid = UndefinedPid                  \* !pid
              THEN /\ reply' = Reply("android_stop_emulator", avdName, "thrown",
                                     "not_running", UndefinedPid)
                   /\ UNCHANGED <<bg, processMap>>
              ELSE \E throws \in KillOutcomes(pid) :
                      /\ bg' = AfterKill(pid, throws)
                      /\ processMap' = MapDelete(processMap, avdName)
                      /\ reply' = Reply("android_stop_emulator", avdName, "success",
                                        IF throws THEN "already_stopped" ELSE "stopped",
                                        pid)
    /\ UNCHANGED <<probe, call, flutterSessions, mediaRecordings, handlers, timers,
                   exited>>

\* flutter_stop_session (flutter.ts 424-468)
FlutterStopSession ==
    /\ ~exited
    /\ \E sessionId \in 1..MaxPid :
          IF ~MapHas(flutterSessions, sessionId)
          THEN /\ reply' = Reply("flutter_stop_session", sessionId, "thrown",
                                 "session_not_found", UndefinedPid)
               /\ UNCHANGED <<bg, flutterSessions>>
          ELSE LET pid == flutterSessions[sessionId].pid
               IN  \E throws \in KillOutcomes(pid) :
                      /\ bg' = AfterKill(pid, throws)
                      /\ flutterSessions' = MapDelete(flutterSessions, sessionId)
                      /\ reply' = Reply("flutter_stop_session", sessionId, "success",
                                        IF throws THEN "already_stopped" ELSE "stopped",
                                        pid)
    /\ UNCHANGED <<probe, call, processMap, mediaRecordings, handlers, timers, exited>>

\* android_screen_record_stop (media.ts 342-393)
AndroidScreenRecordStop ==
    /\ ~exited
    /\ \E in \in ScreenRecordInputs :
          LET recordingPid == MapGet(mediaRecordings, in.serial)
          IN  IF recordingPid = UndefinedPid         \* !recordingPid
              THEN /\ reply' = Reply("android_screen_record_stop", in.serial, "failure",
                                     "NO_ACTIVE_RECORDING", UndefinedPid)
                   /\ UNCHANGED <<bg, mediaRecordings>>
              ELSE \E throws \in KillOutcomes(recordingPid) :
                      IF throws
                      THEN /\ reply' = Reply("android_screen_record_stop", in.serial,
                                             "failure", "RECORDING_STOP_FAILED",
                                             recordingPid)
                           /\ UNCHANGED <<bg, mediaRecordings>>
                      ELSE /\ bg' = AfterKill(recordingPid, throws)
                           /\ mediaRecordings' = MapDelete(mediaRecordings, in.serial)
                           /\ reply' = Reply("android_screen_record_stop", in.serial,
                                             "success", "stopped", recordingPid)
    /\ UNCHANGED <<probe, call, processMap, flutterSessions, handlers, timers, exited>>

\* exit codes of xcrun simctl shutdown: done, already shut down, failed
ShutdownExitCodes == {0, 164, 1}

\* ios_shutdown_simulator (ios.ts 187-234), on a macOS host: the recording of
\* the simulator is stopped before xcrun simctl shutdown is awaited
IosShutdownSimulator ==
    /\ ~exited
    /\ \E udid \in Udids :
          IF ~validateUDID(udid)
          THEN /\ reply' = Reply("ios_shutdown_simulator", udid, "thrown",
                                 "invalid_udid", UndefinedPid)
               /\ UNCHANGED <<bg, processMap>>
          ELSE \E code \in ShutdownExitCodes :
               /\ IF MapHas(processMap, udid)
                  THEN /\ \E throws \in KillOutcomes(processMap[udid]) :
                             bg' = AfterKill(processMap[udid], throws)
                       /\ processMap' = MapDelete(processMap, udid)
                  ELSE UNCHANGED <<bg, processMap>>
               /\ reply' = IF code = 0
                           THEN Reply("ios_shutdown_simulator", udid, "success",
                                      "shutdown", UndefinedPid)
                           ELSE IF code = 164
                           THEN Reply("ios_shutdown_simulator", udid, "success",
                                      "already_shutdown", UndefinedPid)
                           ELSE Reply("ios_shutdown_simulator", udid, "thrown",
                                      "shutdown_failed", UndefinedPid)
    /\ UNCHANGED <<probe, call, flutterSessions, mediaRecordings, handlers, timers,
                   exited>>

\* the validation of the command line android_delete_avd executes
DeleteAvdValidation ==
    [name \in DeleteAvdNames |->
        validateCommand(<<"a","v","d","m","a","n","a","g","e","r">>, <<<<"d","e","l","e","t","e">>, <<"a","v","d">>, <<"-","-","n","a","m","e">>, name>>)]

\* android_delete_avd (android.ts 294-324); deleted is exit code 0 of
\* avdmanager delete avd
AndroidDeleteAvd ==
    /\ ~exited
    /\ \E name \in DeleteAvdNames :
          IF ~IsAvdName(name)
          THEN /\ reply' = Reply("android_delete_avd", name, "thrown",
                                 "invalid_avd_name", UndefinedPid)
               /\ UNCHANGED processMap
          ELSE \E deleted \in BOOLEAN :
               IF DeleteAvdValidation[name].thrown \/ ~deleted
               THEN /\ reply' = Reply("android_delete_avd", name, "thrown",
                                      "deletion_failed", UndefinedPid)
                    /\ UNCHANGED processMap
               ELSE /\ processMap' = MapDelete(processMap, name)
                    /\ reply' = Reply("android_delete_avd", name, "success", "deleted",
                                      UndefinedPid)
    /\ UNCHANGED <<probe, call, bg, flutterSessions, mediaRecordings, handlers, timers,
                   exited>>

-----------------------------------------------------------------------------
(* Background processes ending, callbacks and timers *)

\* the command line the 'exit' callback of android_screen_record executes
\* first (media.ts 289-293), and whether validateCommand rejects it
ScreenRecordPullArgs(in, now) ==
    <<<<"-","s">>, in.serial, <<"p","u","l","l">>, ScreenRecordRemotePath(now), in.outputPath>>

PullRejected ==
    [in \in ScreenRecordInputs |->
        [now \in Timestamps |->
            validateCommand(<<"a","d","b">>, ScreenRecordPullArgs(in, now)).thrown]]

\* the pid the map of background process p holds under p's key
TrackedPidOf(p) ==
    CASE p.tool \in {"android_start_emulator", "ios_record_video"} ->
            MapGet(processMap, p.key)
      [] p.tool = "android_screen_record" -> MapGet(mediaRecordings, p.key)
      [] p.tool = "flutter_run" ->
            IF MapHas(flutterSessions, p.key) THEN flutterSessions[p.key].pid
            ELSE UndefinedPid

\* a background process ends on its own
BackgroundProcessExits ==
    /\ ~exited
    /\ \E pid \in 1..Len(bg) :
        /\ bg[pid].alive
        /\ bg' = [bg EXCEPT ![pid].alive = FALSE, ![pid].exitPending = TRUE]
    /\ reply' = NoReply
    /\ UNCHANGED <<probe, call, processMap, flutterSessions, mediaRecordings,
                   handlers, timers, exited>>

\* the 'exit' callback the start handler registered runs.  The callback of
\* android_screen_record, on exit code 0, awaits processExecutor.execute('adb',
\* ['-s', serial, 'pull', ..]) (media.ts 287-293), which validateCommand
\* rejects: the rejection of the async callback is unhandled and
\* unhandledRejection calls process.exit(1) (server.ts 213-216)
ExitCallback ==
    /\ ~exited
    /\ \E pid \in 1..Len(bg) :
        LET p == bg[pid]
        IN  /\ p.exitPending
            /\ bg' = [bg EXCEPT ![pid].exitPending = FALSE]
            /\ processMap' =
                  IF p.tool \in {"android_start_emulator", "ios_record_video"}
                  THEN MapDelete(processMap, p.key) ELSE processMap
            /\ flutterSessions' =
                  IF p.tool = "flutter_run"
                  THEN MapDelete(flutterSessions, p.key) ELSE flutterSessions
            /\ mediaRecordings' =
                  IF p.tool = "android_screen_record"
                  THEN MapDelete(mediaRecordings, p.key) ELSE mediaRecordings
            /\ \E codeIsZero \in (IF p.tool = "android_screen_record"
                                   THEN BOOLEAN ELSE {FALSE}) :
               exited' =
                  (/\ p.tool = "android_screen_record"
                   /\ codeIsZero
                   /\ \E in \in ScreenRecordInputs, now \in Timestamps :
                          /\ p.args = ScreenRecordArgs(in, now)
                          /\ PullRejected[in][now])
            /\ reply' = Reply(p.tool, p.key, "exit",
                              IF TrackedPidOf(p) = pid THEN "removed" ELSE "none",
                              UndefinedPid)
    /\ UNCHANGED <<probe, call, handlers, timers>>

\* the auto-cleanup timer of ios_record_video fires (ios.ts 498-507)
IosCleanupTimer ==
    /\ ~exited
    /\ \E t \in timers :
        /\ timers' = timers \ {t}
        /\ IF MapHas(processMap, t.udid)
           THEN /\ \E throws \in KillOutcomes(t.pid) : bg' = AfterKill(t.pid, throws)
                /\ processMap' = MapDelete(processMap, t.udid)
           ELSE UNCHANGED <<bg, processMap>>
    /\ reply' = NoReply
    /\ UNCHANGED <<probe, call, flutterSessions, mediaRecordings, handlers, exited>>

\* Array.from(map.entries()): the (key, pid) pairs of a map
Entries(m) == {<<k, m[k]>> : k \in DOMAIN m}

\* health_check (server.ts 61-77): after await validateEnvironment() the
\* response lists the entries of globalProcessMap
HealthCheck ==
    /\ ~exited
    /\ reply' = [Reply("health_check", << >>, "success", "healthy", UndefinedPid)
                    EXCEPT !.data = Entries(processMap)]
    /\ UNCHANGED <<probe, call, bg, processMap, flutterSessions, mediaRecordings,
                   handlers, timers, exited>>

\* the background processes after process.kill(pid, 'SIGTERM'), in a try /
\* catch, for every pid of pids
SignalAll(pids) ==
    [pid \in 1..Len(bg) |->
        IF pid \in pids /\ bg[pid].alive
        THEN [bg[pid] EXCEPT !.alive = FALSE, !.exitPending = TRUE]
        ELSE bg[pid]]

\* the SIGINT handler (server.ts 145-160): SIGTERM to every pid of
\* globalProcessMap, then server.close() and process.exit(0); data records
\* the entries the loop went through
Sigint ==
    /\ ~exited
    /\ bg' = SignalAll({e[2] : e \in Entries(processMap)})
    /\ exited' = TRUE
    /\ reply' = [Reply("SIGINT", << >>, "exit", "none", UndefinedPid)
                    EXCEPT !.data = Entries(processMap)]
    /\ UNCHANGED <<probe, call, processMap, flutterSessions, mediaRecordings,
                   handlers, timers>>

\* flutter_list_sessions (flutter.ts 480-493): the response lists the
\* sessions of runningFlutterSessions, here by session id and pid
FlutterListSessions ==
    /\ ~exited
    /\ reply' = [Reply("flutter_list_sessions", << >>, "success", "listed", UndefinedPid)
                    EXCEPT !.data = {<<id, flutterSessions[id].pid>> :
                                        id \in DOMAIN flutterSessions}]
    /\ UNCHANGED <<probe, call, bg, processMap, flutterSessions, mediaRecordings,
                   handlers, timers, exited>>

TrackNext ==
    \/ AndroidStartEmulator
    \/ FlutterRunCall
    \/ FlutterRunResume
    \/ IosRecordVideoCall
    \/ IosRecordVideoResume
    \/ AndroidScreenRecordCall
    \/ AndroidScreenRecordResume
    \/ AndroidStopEmulator
    \/ FlutterStopSession
    \/ AndroidScreenRecordStop
    \/ IosShutdownSimulator
    \/ AndroidDeleteAvd
    \/ BackgroundProcessExits
    \/ ExitCallback
    \/ IosCleanupTimer
-----------------------------------------------------------------------------
(* A validator called on its own *)

ProbeCommands == { <<"a","d","b">>, <<"e","m","u","l","a","t","o","r">>, <<"f","l","u","t","t","e","r">>, <<"l","s">>, <<"e","c","h","o">>, <<"t","i","m","e","o","u","t">> }

ProbeArgs == {
    <<"d","e","v","i","c","e","s">>, <<"s","h","e","l","l">>, <<"r","e","b","o","o","t">>, <<"-","s">>, << >>, <<"x">>,
    <<"a",";","b">>, <<".",".","/",".",".","/","e","t","c","/","p","a","s","s","w","d">>, <<"/","e","t","c","/","x">>, <<"r","m">>, <<"-","r","f">>, <<"r","m"," "," ","-","r","f"," ","/">>,
    <<"s","u","d","o"," ","l","s">>, <<"s","u">>, <<">">>, <<"/","x">>, <<">",">">>,
    <<"-","a","v","d">>, <<"-","p","o","r","t","=","5","5","5","4">>, <<"-","w","i","p","e","-","d","a","t","a">>,
    <<"-","-","v","e","r","s","i","o","n">>, <<"-","-","f","o","o">>, <<"r","u","n">> }

ProbeArgLists == UNION {[1..n -> ProbeArgs] : n \in 0..MaxArgs}

IdleProbe ==
    [fn |-> "none", command |-> << >>, args |-> << >>, path |-> << >>,
     done |-> FALSE, outcome |-> Returns, value |-> << >>]

\* validateCommand(command, args) is applied to the probe's input
ApplyValidateCommand ==
    /\ probe.fn = "validateCommand"
    /\ ~probe.done
    /\ probe' = [probe EXCEPT !.done = TRUE,
                              !.outcome = validateCommand(probe.command, probe.args)]
    /\ UNCHANGED <<call, trackVars>>

ValidatorNext == ApplyValidateCommand

\* the pieces the probed path strings are put together from
PathPieces == { <<".",".">>, <<".">>, <<"/">>, <<"a">>, <<"/","e","t","c","/">>, <<"e","t","c">>, <<"/","p","r","o","c","/">>, <<"/","s","y","s","/">>, <<"s","y","s","/","x">> }

RECURSIVE Concat(_)
Concat(pieces) ==
    IF Len(pieces) = 0 THEN << >> ELSE Head(pieces) \o Concat(Tail(pieces))

ProbePaths == {Concat(ps) : ps \in UNION {[1..n -> PathPieces] : n \in 0..MaxPieces}}

\* validatePath(path) is applied to the probe's input
ApplyValidatePath ==
    /\ probe.fn = "validatePath"
    /\ ~probe.done
    /\ probe' = [probe EXCEPT !.done = TRUE, !.outcome = validatePath(probe.path)]
    /\ UNCHANGED <<call, trackVars>>

\* sanitizePath(path) is applied to the probe's input
ApplySanitizePath ==
    /\ probe.fn = "sanitizePath"
    /\ ~probe.done
    /\ probe' = [probe EXCEPT !.done = TRUE, !.value = sanitizePath(probe.path)]
    /\ UNCHANGED <<call, trackVars>>

PathNext == ApplyValidatePath \/ ApplySanitizePath

-----------------------------------------------------------------------------
(* Specifications *)

Init ==
    /\ probe = IdleProbe
    /\ call = IdleCall
    /\ bg = << >>
    /\ processMap = EmptyMap
    /\ flutterSessions = EmptyMap
    /\ mediaRecordings = EmptyMap
    /\ handlers = EmptyBag
    /\ timers = {}
    /\ reply = NoReply
    /\ exited = FALSE

ValidatorInit ==
    /\ probe \in {[IdleProbe EXCEPT !.fn = "validateCommand", !.command = c, !.args = a] :
                     c \in ProbeCommands, a \in ProbeArgLists}
    /\ call = IdleCall
    /\ bg = << >>
    /\ processMap = EmptyMap
    /\ flutterSessions = EmptyMap
    /\ mediaRecordings = EmptyMap
    /\ handlers = EmptyBag
    /\ timers = {}
    /\ reply = NoReply
    /\ exited = FALSE

PathInit ==
    /\ probe \in {[IdleProbe EXCEPT !.fn = f, !.path = p] :
                     f \in {"validatePath", "sanitizePath"}, p \in ProbePaths}
    /\ call = IdleCall
    /\ bg = << >>
    /\ processMap = EmptyMap
    /\ flutterSessions = EmptyMap
    /\ mediaRecordings = EmptyMap
    /\ handlers = EmptyBag
    /\ timers = {}
    /\ reply = NoReply
    /\ exited = FALSE

Next == ExecNext \/ TrackNext \/ HealthCheck \/ FlutterListSessions \/ Sigint

\* the whole server
Spec == Init /\ [][Next]_vars

\* the ProcessExecutor alone
ExecSpec == Init /\ [][ExecNext]_vars

\* the start handlers and their background processes alone
TrackSpec == Init /\ [][TrackNext]_vars

\* the tool handlers invoked one after the other: no handler is invoked
\* while another one is suspended at an await
SequentialNext ==
    \/ /\ handlers = EmptyBag
       /\ TrackNext
    \/ /\ handlers # EmptyBag
       /\ \/ FlutterRunResume
          \/ IosRecordVideoResume
          \/ AndroidScreenRecordResume
          \/ BackgroundProcessExits
          \/ ExitCallback
          \/ IosCleanupTimer

SequentialSpec == Init /\ [][SequentialNext]_vars

\* the same, with every 'exit' callback that can run eventually running
SequentialFairSpec == SequentialSpec /\ WF_vars(ExitCallback)

\* the tool handlers together with the diagnostics and the shutdown
ServerNext == TrackNext \/ HealthCheck \/ Sigint

ServerSpec == Init /\ [][ServerNext]_vars

\* the Flutter session tools and the exits of their processes, in any
\* interleaving
FlutterNext ==
    \/ FlutterRunCall
    \/ FlutterRunResume
    \/ FlutterStopSession
    \/ FlutterListSessions
    \/ BackgroundProcessExits
    \/ ExitCallback

FlutterSpec == Init /\ [][FlutterNext]_vars

\* the validator applied to every input of the bounded input sets
ValidatorSpec == ValidatorInit /\ [][ValidatorNext]_vars

\* validatePath and sanitizePath applied to every path of the bounded set
PathSpec == PathInit /\ [][PathNext]_vars

-----------------------------------------------------------------------------
(* Properties *)

\* the call under observation has ended
CallEnded == call.pc \in {"returned", "thrown"}

\* the validators reject the call's command line or its working directory
SecurityRejects(c) ==
    \/ validateCommand(c.command, c.args).thrown
    \/ c.cwd # << >> /\ validatePath(c.cwd).thrown

\* the denylist as the specification words it: shell metacharacters, '..',
\* /etc/ /proc/ /sys/, rm -rf, sudo or 'su ', '> /' or '>>'
DenylistedClasses ==
    {"metachar", "traversal", "sysdir", "rm", "privilege", "redirect"}

Denylisted(s) == \E class \in DenylistedClasses : PatternTest(class, s)

\* C1: every subprocess the server has started, through the executor or as a
\* background process of a start handler, has a (command, args) that
\* validateCommand accepts.
C1_EverySpawnValidated ==
    /\ call.spawned => ~validateCommand(call.command, call.args).thrown
    /\ \A pid \in 1..Len(bg) :
          bg[pid].started => ~validateCommand(bg[pid].command, bg[pid].args).thrown

\* C2: a call of execute or executeStream whose command line validateCommand
\* rejects, or whose present cwd validatePath rejects, has spawned nothing.
C2_RejectedCallSpawnsNothing ==
    (call.pc # "idle" /\ SecurityRejects(call)) => ~call.spawned

C2_Witness ==
    /\ CallEnded
    /\ ~validateCommand(call.command, call.args).thrown
    /\ call.cwd # << >>
    /\ validatePath(call.cwd).thrown
    /\ ~call.spawned

\* C3: for a command outside the allowed-command set, whatever the
\* arguments, validateCommand throws "Command '<command>' is not allowed".
C3_UnlistedCommandRejected ==
    (probe.done /\ probe.command \notin allowedCommands) =>
        probe.outcome =
            Throws(<<"C","o","m","m","a","n","d"," ","'">> \o probe.command \o <<"'"," ","i","s"," ","n","o","t"," ","a","l","l","o","w","e","d">>)

C3_Witness ==
    /\ probe.done
    /\ probe.command = <<"e","c","h","o">>
    /\ Len(probe.args) = MaxArgs
    /\ probe.outcome.thrown

\* C4: for an allowed command whose space-joined command line matches a
\* denylisted pattern, validateCommand throws.
C4_DenylistedLineRejected ==
    (/\ probe.done
     /\ probe.command \in allowedCommands
     /\ Denylisted(Join(<<probe.command>> \o probe.args, <<" ">>)))
        => probe.outcome.thrown

C4_Witness ==
    /\ probe.done
    /\ probe.command = <<"l","s">>
    /\ probe.args = <<<<"r","m">>, <<"-","r","f">>>>
    /\ probe.outcome.thrown
    /\ Includes(probe.outcome.message, <<"d","a","n","g","e","r","o","u","s">>)

\* C5: validateCommand accepts adb with a non-empty argument list only if
\* the first argument is one of the eight safe verbs.
C5_AdbVerbAllowlist ==
    (/\ probe.done
     /\ probe.command = <<"a","d","b">>
     /\ Len(probe.args) > 0
     /\ ~probe.outcome.thrown)
        => probe.args[1] \in safeAdbCommands

\* C6: for adb with first argument shell, if the space-joined remaining
\* arguments match a denylisted pattern, validateCommand throws.
C6_AdbShellTailRejected ==
    (/\ probe.done
     /\ probe.command = <<"a","d","b">>
     /\ Len(probe.args) > 0
     /\ probe.args[1] = <<"s","h","e","l","l">>
     /\ Denylisted(Join(Tail(probe.args), <<" ">>)))
        => probe.outcome.thrown

C6_Witness ==
    /\ probe.done
    /\ probe.command = <<"a","d","b">>
    /\ probe.args = <<<<"s","h","e","l","l">>, <<"r","m"," "," ","-","r","f"," ","/">>>>
    /\ probe.outcome.thrown

\* C7: an execute call whose command line or cwd the validators reject ends
\* by throwing; it never returns a result.
C7_RejectedExecuteThrows ==
    (call.fn = "execute" /\ CallEnded /\ SecurityRejects(call)) => call.pc = "thrown"

\* C8: an execute call whose subprocess was still running when the timeout
\* elapsed ends by throwing the timeout error that carries the configured
\* timeout; it does not return a result.
C8_TimeoutThrows ==
    (call.fn = "execute" /\ call.ending = "timeout") =>
        /\ call.pc = "thrown"
        /\ call.error = <<"C","o","m","m","a","n","d"," ","t","i","m","e","d"," ","o","u","t"," ","a","f","t","e","r"," ">>
                           \o NumToString(EffectiveTimeout(call.timeout)) \o <<"m","s">>

\* C9: an execute call whose subprocess exits on its own with a non-zero
\* code returns a result with that exit code and the output execa captured.
C9_NonZeroExitIsAResult ==
    (/\ call.fn = "execute"
     /\ call.ending = "exit"
     /\ call.exitCode # Some(0))
        => /\ call.pc = "returned"
           /\ call.result.exitCode = call.exitCode
           /\ call.result.stdout = StripFinalNewline(call.procStdout)
           /\ call.result.stderr = StripFinalNewline(call.procStderr)

C9_Witness ==
    /\ call.fn = "execute"
    /\ call.ending = "exit"
    /\ call.exitCode = Some(2)
    /\ call.pc = "returned"
    /\ call.procStdout # << >>
    /\ call.procStderr # << >>

\* C10: execute of echo with the single argument 'test; rm -rf /' returns
\* exit code 0 and a stdout that contains the argument verbatim.
C10_EchoMetacharacters ==
    (/\ call.fn = "execute"
     /\ call.command = <<"e","c","h","o">>
     /\ call.args = <<<<"t","e","s","t",";"," ","r","m"," ","-","r","f"," ","/">>>>
     /\ CallEnded)
        => /\ call.pc = "returned"
           /\ call.result.exitCode = Some(0)
           /\ Includes(call.result.stdout, <<"t","e","s","t",";"," ","r","m"," ","-","r","f"," ","/">>)

-----------------------------------------------------------------------------
(* Properties of the background-process tracking *)

StartTools ==
    {"android_start_emulator", "flutter_run", "ios_record_video",
     "android_screen_record"}

\* the keys a start operation tracks its processes under: AVD name, project
\* path, UDID, device serial
TrackedKeys(tool) ==
    CASE tool = "android_start_emulator" -> DOMAIN processMap
      [] tool = "ios_record_video"       -> DOMAIN processMap
      [] tool = "android_screen_record"  -> DOMAIN mediaRecordings
      [] tool = "flutter_run" ->
            {flutterSessions[id].projectPath : id \in DOMAIN flutterSessions}

\* the key of the background process pid, as TrackedKeys names it
KeyOf(pid) ==
    IF bg[pid].tool = "flutter_run" THEN flutterSessions[bg[pid].key].projectPath
    ELSE bg[pid].key

\* r is the response of a start handler
StartResponse(r) ==
    r.outcome \in {"success", "failure", "thrown"} /\ r.tool \in StartTools

\* the pid a tracked key of a start operation is recorded with
TrackedPid(tool, key) ==
    CASE tool = "android_start_emulator" -> processMap[key]
      [] tool = "ios_record_video"       -> processMap[key]
      [] tool = "android_screen_record"  -> mediaRecordings[key]
      [] tool = "flutter_run" ->
            flutterSessions[CHOOSE id \in DOMAIN flutterSessions :
                               flutterSessions[id].projectPath = key].pid

\* the stop operation of each start operation that has one
StopOf(tool) ==
    CASE tool = "android_start_emulator" -> "android_stop_emulator"
      [] tool = "flutter_run"            -> "flutter_stop_session"
      [] tool = "android_screen_record"  -> "android_screen_record_stop"
      [] OTHER                           -> "no stop operation"

\* the tracked state of the three maps
Tracking == <<processMap, flutterSessions, mediaRecordings>>

\* C11: check-and-track is one uninterrupted step: a start handler spawns a
\* process only in a step at whose beginning its key is untracked, so two
\* concurrent invocations with one key never both spawn and no recorded pid
\* is overwritten.
C11_CheckAndTrackAtomic ==
    [][Len(bg') > Len(bg) =>
          KeyOf(Len(bg))' \notin TrackedKeys(bg'[Len(bg')].tool)]_vars

\* C12: a sequential start of a key that is tracked spawns nothing and
\* leaves the three maps as they are; a stop of a key tracked with the pid p
\* of a running process signals p and no other process and leaves the key
\* untracked.
C12_SecondStartThenStop ==
    [][/\ (StartResponse(reply') /\ reply'.key \in TrackedKeys(reply'.tool))
            => (bg' = bg /\ Tracking' = Tracking)
       /\ \A avdName \in DOMAIN processMap :
             (/\ reply'.tool \in {"android_stop_emulator", "ios_shutdown_simulator"}
              /\ reply'.key = avdName
              /\ processMap[avdName] \in 1..Len(bg)
              /\ bg[processMap[avdName]].alive)
                => (/\ bg' = [bg EXCEPT ![processMap[avdName]].alive = FALSE,
                                        ![processMap[avdName]].exitPending = TRUE]
                    /\ avdName \notin DOMAIN processMap')
       /\ \A sessionId \in DOMAIN flutterSessions :
             (/\ reply'.tool = "flutter_stop_session"
              /\ reply'.key = sessionId
              /\ flutterSessions[sessionId].pid \in 1..Len(bg)
              /\ bg[flutterSessions[sessionId].pid].alive)
                => (/\ bg' = [bg EXCEPT ![flutterSessions[sessionId].pid].alive = FALSE,
                                        ![flutterSessions[sessionId].pid].exitPending = TRUE]
                    /\ sessionId \notin DOMAIN flutterSessions')
       /\ \A serial \in DOMAIN mediaRecordings :
             (/\ reply'.tool = "android_screen_record_stop"
              /\ reply'.key = serial
              /\ mediaRecordings[serial] \in 1..Len(bg)
              /\ bg[mediaRecordings[serial]].alive)
                => (/\ bg' = [bg EXCEPT ![mediaRecordings[serial]].alive = FALSE,
                                        ![mediaRecordings[serial]].exitPending = TRUE]
                    /\ serial \notin DOMAIN mediaRecordings')]_vars

C12_Witness ==
    /\ reply.tool = "android_start_emulator"
    /\ reply.status = "already_running"
    /\ reply.key \in DOMAIN processMap
    /\ processMap[reply.key] = reply.pid
    /\ Len(bg) = 1
    /\ bg[reply.pid].alive

\* C13: a start handler called for a key that is tracked answers with a
\* success result of status 'already_running' that carries the tracked pid;
\* it neither throws nor returns success: false.
C13_StartOfTrackedKeyReportsRunning ==
    [][(StartResponse(reply') /\ reply'.key \in TrackedKeys(reply'.tool))
          => /\ reply'.outcome = "success"
             /\ reply'.status = "already_running"
             /\ reply'.pid = TrackedPid(reply'.tool, reply'.key)]_vars

\* the response r reports 'already_stopped' as a success
AlreadyStopped(r) == r.outcome = "success" /\ r.status = "already_stopped"

\* C14: a stop handler called for the key of a process that the server
\* started and that exited on its own answers with a success result of
\* status 'already_stopped' and leaves the key untracked, both while the
\* 'exit' callback of the process is still to run and right after it ran.
C14_StopOfExitedProcess ==
    [][/\ \A pid \in 1..Len(bg) :
             (/\ bg[pid].exitPending
              /\ TrackedPidOf(bg[pid]) = pid
              /\ reply'.tool = StopOf(bg[pid].tool)
              /\ reply'.key = bg[pid].key)
                => (AlreadyStopped(reply') /\ TrackedPidOf(bg[pid])' = UndefinedPid)
       /\ (/\ reply.outcome = "exit"
           /\ reply.status = "removed"
           /\ reply'.tool = StopOf(reply.tool)
           /\ reply'.key = reply.key)
             => AlreadyStopped(reply')]_vars

\* the background process pid has the entry its start handler recorded
HasEntry(pid) ==
    /\ pid \in 1..Len(bg)
    /\ TrackedPidOf(bg[pid]) = (IF bg[pid].started THEN pid ELSE UndefinedPid)
    /\ bg[pid].tool = "flutter_run" => MapHas(flutterSessions, bg[pid].key)
    /\ bg[pid].tool = "android_screen_record" => MapHas(mediaRecordings, bg[pid].key)
    /\ bg[pid].tool \in {"android_start_emulator", "ios_record_video"}
          => MapHas(processMap, bg[pid].key)

\* C15: the entry of a background process that is not running, because it
\* exited on its own or because its spawn failed, is eventually removed from
\* its map, given that 'exit' callbacks that can run do run.
C15_DeadProcessEventuallyUntracked ==
    \A pid \in 1..MaxPid :
        (HasEntry(pid) /\ ~bg[pid].alive) ~> ~HasEntry(pid)

\* the tools whose handlers stop the process tracked in each map
StopToolsOf(map) ==
    CASE map = "processMap"      -> {"android_stop_emulator", "ios_shutdown_simulator"}
      [] map = "flutterSessions" -> {"flutter_stop_session"}
      [] map = "mediaRecordings" -> {"android_screen_record_stop"}

StartToolsOf(map) ==
    CASE map = "processMap"      -> {"android_start_emulator", "ios_record_video"}
      [] map = "flutterSessions" -> {"flutter_run"}
      [] map = "mediaRecordings" -> {"android_screen_record"}

\* the step removes key from map on one of the three triggers: a stop of the
\* key (by its stop handler, or by the auto-cleanup timer of its recording),
\* whether the signal was delivered or the process was found dead, or the
\* 'exit' callback of the process the key is tracked with
RemovalTrigger(map, key) ==
    \/ reply'.tool \in StopToolsOf(map) /\ reply'.key = key
    \/ map = "processMap" /\ \E t \in timers \ timers' : t.udid = key
    \/ /\ reply'.outcome = "exit"
       /\ reply'.status = "removed"
       /\ reply'.tool \in StartToolsOf(map)
       /\ reply'.key = key

\* C16: a key leaves its map only in a step that is one of the three removal
\* triggers for that key.
C16_RemovedOnlyByTrigger ==
    [][/\ \A key \in DOMAIN processMap \ DOMAIN processMap' :
             RemovalTrigger("processMap", key)
       /\ \A key \in DOMAIN flutterSessions \ DOMAIN flutterSessions' :
             RemovalTrigger("flutterSessions", key)
       /\ \A key \in DOMAIN mediaRecordings \ DOMAIN mediaRecordings' :
             RemovalTrigger("mediaRecordings", key)]_vars


-----------------------------------------------------------------------------
(* Properties of the streaming call and of the results *)

RECURSIVE YieldedData(_, _)
\* the data of the chunks of one type the generator has yielded, in order
YieldedData(yielded, type) ==
    IF yielded = << >> THEN << >>
    ELSE (IF Head(yielded).type = type THEN Head(yielded).data ELSE << >>)
             \o YieldedData(Tail(yielded), type)

StreamEnded == call.fn = "executeStream" /\ CallEnded

\* C17: when an executeStream call that spawned its subprocess has completed,
\* the chunks it yielded are, per type and in order, what the subprocess
\* wrote to stdout and to stderr, and the stdout and stderr of a result
\* returned after a successful run are the concatenation of those chunks.
C17_StreamYieldsEveryChunk ==
    (StreamEnded /\ call.spawned)
        => /\ YieldedData(call.yielded, "stdout") = call.procStdout
           /\ YieldedData(call.yielded, "stderr") = call.procStderr
           /\ (call.ending = "exit" /\ call.exitCode = Some(0))
                 => /\ call.result.stdout = YieldedData(call.yielded, "stdout")
                    /\ call.result.stderr = YieldedData(call.yielded, "stderr")

\* C18: an executeStream call never ends by throwing; when the validators
\* reject it, the spawn fails, the timeout elapses or the subprocess fails,
\* it returns a result with exit code 1 and a non-empty message in stderr.
C18_StreamNeverThrows ==
    StreamEnded
        => /\ call.pc = "returned"
           /\ (SecurityRejects(call) \/ ~(call.ending = "exit" /\ call.exitCode = Some(0)))
                 => /\ call.result.exitCode = Some(1)
                    /\ call.result.stderr # << >>

\* the stderr of the result is what was captured from the subprocess, not
\* the message of an error
StderrIsOutput ==
    IF call.fn = "execute" THEN call.spawned /\ call.ending # "throw"
    ELSE call.ending = "exit" /\ call.exitCode = Some(0)

\* C19: in every returned result the stdout, and the stderr when it is
\* output of the subprocess, are no longer than the captured-output limit of
\* the call: options.maxOutputSize, else the default.
C19_OutputWithinMaxOutputSize ==
    call.pc = "returned"
        => /\ Len(call.result.stdout) <= EffectiveMaxOutputSize(call.maxOutputSize)
           /\ StderrIsOutput
                 => Len(call.result.stderr) <= EffectiveMaxOutputSize(call.maxOutputSize)

\* C20: every result execute returns has an integer exit code, and an
\* execute call whose binary could not be spawned either throws or returns a
\* non-zero exit code.
C20_ResultHasIntegerExitCode ==
    (call.fn = "execute" /\ CallEnded)
        => /\ call.pc = "returned" => call.result.exitCode # Undefined
           /\ call.ending \in {"enoent", "throw"}
                 => \/ call.pc = "thrown"
                    \/ call.result.exitCode \notin {Undefined, Some(0)}

-----------------------------------------------------------------------------
(* Properties of the path functions *)

\* the paths the specification says validatePath rejects
PathRejectedAsSpecified(p) ==
    \/ Includes(p, <<".",".">>)
    \/ StartsWith(p, <<"/","e","t","c","/">>)
    \/ StartsWith(p, <<"/","p","r","o","c","/">>)
    \/ StartsWith(p, <<"/","s","y","s","/">>)

\* C21: validatePath(p) throws if and only if p contains '..' or starts
\* with /etc/, /proc/ or /sys/; the test reads the text of p as it is.
C21_ValidatePathTextual ==
    (probe.fn = "validatePath" /\ probe.done)
        => (probe.outcome.thrown <=> PathRejectedAsSpecified(probe.path))

C21_Witness ==
    /\ probe.fn = "validatePath"
    /\ probe.done
    /\ probe.path = <<"a","/","e","t","c","/","a">>
    /\ ~probe.outcome.thrown

\* C22: sanitizePath(p) has no '..', no two slashes in a row and no leading
\* slash; sanitizing it again changes nothing, and validatePath accepts it.
C22_SanitizePathClean ==
    (probe.fn = "sanitizePath" /\ probe.done)
        => /\ ~Includes(probe.value, <<".",".">>)
           /\ ~Includes(probe.value, <<"/","/">>)
           /\ ~StartsWith(probe.value, <<"/">>)
           /\ sanitizePath(probe.value) = probe.value
           /\ ~validatePath(probe.value).thrown

C22_Witness ==
    /\ probe.fn = "sanitizePath"
    /\ probe.done
    /\ probe.path = <<".",".","/","/","e","t","c","/">>
    /\ probe.value = <<"e","t","c","/">>

-----------------------------------------------------------------------------
(* Properties of the command-specific validation *)

ProbeAccepted(command) ==
    /\ probe.fn = "validateCommand"
    /\ probe.done
    /\ probe.command = command
    /\ ~probe.outcome.thrown

\* C23: when validateCommand accepts an emulator command line, every
\* argument that begins with '-' has its flag name, the part before any '=',
\* among -list-avds, -avd, -no-window, -port and -gpu.
C23_EmulatorFlagAllowlist ==
    ProbeAccepted(<<"e","m","u","l","a","t","o","r">>)
        => \A i \in 1..Len(probe.args) :
              StartsWith(probe.args[i], <<"-">>)
                 => SplitEq0(probe.args[i])
                       \in {<<"-","l","i","s","t","-","a","v","d","s">>, <<"-","a","v","d">>, <<"-","n","o","-","w","i","n","d","o","w">>, <<"-","p","o","r","t">>, <<"-","g","p","u">>}

C23_Witness ==
    /\ ProbeAccepted(<<"e","m","u","l","a","t","o","r">>)
    /\ probe.args = <<<<"x">>, <<"-","p","o","r","t","=","5","5","5","4">>>>

\* the verb of a flutter command line: its first non-empty argument that is
\* no option
FlutterVerbs(args) ==
    LET words == {i \in 1..Len(args) : args[i] # << >> /\ ~StartsWith(args[i], <<"-">>)}
    IN  {args[i] : i \in {k \in words : \A j \in words : k <= j}}

\* C24: when validateCommand accepts a flutter command line, every
\* argument of the form --flag, at any position, is one of the five safe
\* flags and the verb is one of the ten safe verbs.
C24_FlutterFlagsAndVerb ==
    ProbeAccepted(<<"f","l","u","t","t","e","r">>)
        => /\ \A i \in 1..Len(probe.args) :
                 StartsWith(probe.args[i], <<"-","-">>) => probe.args[i] \in safeFlutterFlags
           /\ FlutterVerbs(probe.args) \subseteq safeFlutterCommands

-----------------------------------------------------------------------------
(* Properties of the diagnostics and of the shutdown *)

\* the (key, pid) pairs of all background processes the server tracks
TrackedEntries ==
    Entries(processMap) \cup Entries(mediaRecordings)
        \cup {<<k, flutterSessions[k].pid>> : k \in DOMAIN flutterSessions}

\* C25: the activeProcesses of a health_check response are exactly the
\* (key, pid) pairs of the background processes tracked at that moment,
\* whichever start operation tracked them.
C25_HealthCheckListsAllTracked ==
    reply.tool = "health_check" => reply.data = TrackedEntries

\* C26: the SIGINT handler signals every background process that is tracked
\* when it runs: none of them is alive once the server has exited.
C26_SigintSignalsAllTracked ==
    [][reply'.tool = "SIGINT"
          => \A e \in TrackedEntries :
                (e[2] # UndefinedPid /\ bg[e[2]].alive) => ~bg'[e[2]].alive]_vars

\* C27: a callback of an earlier process leaves a later process alone.  An
\* 'exit' callback that runs when the map does not hold its own process
\* removes no entry, and a cleanup timer that fires when the map holds
\* another pid under its key removes no entry and signals no process.
C27_LateCallbackLeavesSuccessor ==
    [][/\ (reply'.outcome = "exit" /\ reply'.status = "none")
              => Tracking' = Tracking
       /\ \A t \in timers \ timers' :
              MapGet(processMap, t.udid) # t.pid
                 => (processMap' = processMap /\ bg' = bg)]_vars

-----------------------------------------------------------------------------
(* Properties of the failures execute reports *)

\* the error execute throws for a timeout, and the one for a kill
IsTimeoutError(error) == StartsWith(error, <<"C","o","m","m","a","n","d"," ","t","i","m","e","d"," ","o","u","t"," ","a","f","t","e","r"," ">>)
IsKilledError(error) == error = <<"C","o","m","m","a","n","d"," ","w","a","s"," ","k","i","l","l","e","d"," ","d","u","e"," ","t","o"," ","r","e","s","o","u","r","c","e"," ","l","i","m","i","t","s">>

\* the rejection the validators raise for the call
ValidatorRejection(c) ==
    LET v == validateCommand(c.command, c.args)
    IN  IF v.thrown THEN v.message ELSE validatePath(c.cwd).message

\* C28: execute reports the failure that occurred.  A call the validators
\* reject throws the validator's own rejection; the timeout error is thrown
\* only by a call whose subprocess exceeded its timeout.
C28_FailureKindMatches ==
    (call.fn = "execute" /\ CallEnded)
        => /\ SecurityRejects(call)
                 => (call.pc = "thrown" /\ call.error = ValidatorRejection(call))
           /\ (call.pc = "thrown" /\ IsTimeoutError(call.error))
                 => call.ending = "timeout"
           /\ (call.pc = "thrown" /\ IsKilledError(call.error))
                 => call.ending = "signal"

\* the result executeStream returns, once drained, for the command and the
\* subprocess behaviour (output and exit code) of the execute call c
StreamResultFor(c) ==
    Settle([c EXCEPT !.fn = "executeStream", !.pc = "running",
                     !.ending = "none", !.exitCode = Undefined],
           "exit", c.exitCode[1]).result

\* C29: for one validated command and one subprocess behaviour, output and
\* exit code, zero or not, without a timeout, the result of execute and the
\* final result of executeStream have the same exitCode, stdout and stderr.
C29_ExecuteAndStreamAgree ==
    (call.fn = "execute" /\ call.ending = "exit" /\ call.pc = "returned")
        => /\ call.result.exitCode = StreamResultFor(call).exitCode
           /\ call.result.stdout = StreamResultFor(call).stdout
           /\ call.result.stderr = StreamResultFor(call).stderr

-----------------------------------------------------------------------------
(* Properties of the Flutter sessions *)

FlutterProjectPaths == {in.cwd : in \in FlutterRunInputs}

\* the ids of the tracked sessions of a project path
TrackedSessions(path) ==
    {id \in DOMAIN flutterSessions : flutterSessions[id].projectPath = path}

\* C30: whatever the interleaving of flutter_run, flutter_stop_session and
\* session exits, a project path has at most one tracked session; flutter_run
\* for a project path with a tracked session spawns nothing and, the path
\* being a Flutter project, answers already_running with the id and the pid
\* of that session; a session flutter_stop_session has answered stopped or
\* already_stopped for is gone from what flutter_list_sessions returns.
C30_OneSessionPerProject ==
    [][/\ \A path \in FlutterProjectPaths : Cardinality(TrackedSessions(path)') <= 1
       /\ (StartResponse(reply') /\ reply'.tool = "flutter_run"
              /\ TrackedSessions(reply'.key) # {})
              => /\ bg' = bg
                 /\ flutterSessions' = flutterSessions
                 /\ reply'.status # "not_a_flutter_project"
                       => /\ reply'.outcome = "success"
                          /\ reply'.status = "already_running"
                          /\ reply'.data =
                                {<<id, flutterSessions[id].pid>> :
                                    id \in TrackedSessions(reply'.key)}
       /\ (reply'.tool = "flutter_stop_session"
              /\ reply'.status \in {"stopped", "already_stopped"})
              => reply'.key \notin DOMAIN flutterSessions'
       /\ reply'.tool = "flutter_list_sessions"
              => {e[1] : e \in reply'.data} = DOMAIN flutterSessions]_vars

C30_Witness ==
    /\ reply.tool = "flutter_run"
    /\ reply.status = "already_running"
    /\ reply.data = {<<1, 1>>}
    /\ DOMAIN flutterSessions = {1}
    /\ Len(bg) = 1
=============================================================================
